---- MODULE Spec2Model ----
(***************************************************************************)
(* A model of commit-rewrite-llm: the command line and the rewrite         *)
(* orchestrator (rewrite_commits) with its checkpoint file, the message    *)
(* generator, the shell escaping used by the exec scripts, the diff        *)
(* summarizer, the rebase scripts written from a plan, and two             *)
(* orchestrator processes sharing one checkpoint path.                     *)
(*                                                                         *)
(* Strings are sequences of one-character strings, so that slicing         *)
(* (sha[:8]), joining, splitting and escaping are computed as the code     *)
(* computes them.                                                          *)
(***************************************************************************)
EXTENDS Integers, Sequences, FiniteSets, TLC

VARIABLES
    \* ---- the environment of rewrite_commits
    checkpoint_file,        \* the file .git-rewrite-ai/checkpoint.json
    api_key,                \* whether OPENROUTER_API_KEY is set for the process
    response,               \* what the user typed at the prompt of cli.py
    \* ---- rewrite_commits: arguments, locals and position
    pc,
    n, base, mode, run_rebase, use_exec,
    commits,                \* list of sha, in processing order
    completed_messages,     \* ordered dict sha -> message, as a list of pairs
    history_entries,
    history_summary,
    commits_with_messages,  \* the Rewrite Plan
    new_msg,                \* the message of the commit being saved
    \* ---- what the run did (observations)
    loaded,                 \* completed_messages as load_checkpoint gave it
    gen_calls,              \* generate_commit_message invocations, in order
    diff_calls,             \* get_diff invocations that returned: sha
    failure,                \* the call that raised, "" when none did
    artifacts,              \* files written into METADATA_DIR after the loop
    rebase_started,
    killed_at,              \* where the process was when it was killed
    run_no,
    prev                    \* how the previous run on this repository ended

VARIABLES
    \* ---- escape_commit_message_for_shell and the shell that runs the exec line
    esc_pc, esc_message, esc_escaped, esc_decoded,
    \* ---- summarize_diff: arguments, locals and position
    sum_pc, sum_key, diff, chunk_size, max_total, chunks, chunk_i, summaries,
    combined_summary, sum_result, sum_calls

VARIABLES
    \* ---- create_rebase_script and create_rebase_exec_script on a plan
    scr_pc, scr_plan, rebase_script, rebase_exec_script,
    \* ---- two rewrite_commits processes on one checkpoint path
    race_file,              \* the checkpoint file they share
    race_size,              \* the number of characters the file holds
    race_pc, race_commits, race_cm, race_hist,
    race_count,             \* commits each process has processed
    race_generated          \* the shas each process generated a message for

orchVars == <<checkpoint_file, api_key, response, pc, n, base, mode, run_rebase, use_exec,
              commits, completed_messages, history_entries, history_summary,
              commits_with_messages, new_msg, loaded, gen_calls, diff_calls,
              failure, artifacts, rebase_started, killed_at, run_no, prev>>

escVars == <<esc_pc, esc_message, esc_escaped, esc_decoded>>

sumVars == <<sum_pc, sum_key, diff, chunk_size, max_total, chunks, chunk_i,
             summaries, combined_summary, sum_result, sum_calls>>

scrVars == <<scr_pc, scr_plan, rebase_script, rebase_exec_script>>

raceVars == <<race_file, race_size, race_pc, race_commits, race_cm, race_hist,
              race_count, race_generated>>

vars == <<orchVars, escVars, sumVars, scrVars, raceVars>>

----------------------------------------------------------------------------
\* Bounds of the model

\* number of commits in the repository's linear history
RepoLen == 3
\* number of successive runs of the tool against the same checkpoint path
MaxRuns == 2

----------------------------------------------------------------------------
\* Strings

Min(a, b) == IF a < b THEN a ELSE b

\* s[:k]
Take(s, k) == SubSeq(s, 1, Min(k, Len(s)))

\* s[k:] (0-based k)
Drop(s, k) == SubSeq(s, k + 1, Len(s))

\* l[-k:]
LastN(l, k) == SubSeq(l, Len(l) - Min(k, Len(l)) + 1, Len(l))

\* sep.join(parts)
RECURSIVE Join(_, _)
Join(parts, sep) ==
    IF parts = <<>> THEN <<>>
    ELSE IF Len(parts) = 1 THEN parts[1]
    ELSE parts[1] \o sep \o Join(Tail(parts), sep)

\* reversed(l), l[::-1]
Reversed(l) == [k \in 1..Len(l) |-> l[Len(l) + 1 - k]]

NL == <<"\n">>
SP == <<" ">>

HexDigits == <<"0", "1", "2", "3", "4", "5", "6", "7",
               "8", "9", "a", "b", "c", "d", "e", "f">>

----------------------------------------------------------------------------
\* Program constants

\* sha[:8]
ShortShaLen == 8
\* list(completed_messages.items())[-3:]
HistorySeed == 3
\* if len(history_entries) >= 3
HistoryMax == 3

\* "chore: update code"
FallbackMessage == <<"c", "h", "o", "r", "e", ":", " ", "u", "p", "d", "a", "t",
                     "e", " ", "c", "o", "d", "e">>

----------------------------------------------------------------------------
\* The repository: a linear history of RepoLen commits, position 1 the root

ShaOf(k) == <<HexDigits[(k % 16) + 1]>> \o
            <<"a", "1", "b", "2", "c", "3", "d", "4", "e">>

RepoShas == {ShaOf(k) : k \in 1..RepoLen}

CommitSubject == <<"w", "i", "p">>

\* the revisions a run may be given as base: 0 is a revision git does not know
BaseRevs == {0, RepoLen - 1, RepoLen}

\* stdout of git log -<k> --reverse --pretty=format:"%H %s" <b>, as its lines:
\* the k newest commits reachable from b, printed oldest first
GitLog(k, b) ==
    LET cnt == Min(k, b)
    IN [j \in 1..cnt |-> ShaOf(b - cnt + j) \o SP \o CommitSubject]

\* result.stdout.strip().split('\n'): an empty output is one empty line
StdoutLines(out) == IF out = <<>> THEN << <<>> >> ELSE out

\* line.split(' ', 1)
SplitOnce(line) ==
    IF \E k \in 1..Len(line) : line[k] = " "
    THEN LET k == CHOOSE k \in 1..Len(line) :
                      line[k] = " " /\ \A j \in 1..(k - 1) : line[j] # " "
         IN <<Take(line, k - 1), Drop(line, k)>>
    ELSE <<line>>

get_commits(k, b) ==
    LET lines == Reversed(StdoutLines(GitLog(k, b)))
    IN [j \in 1..Len(lines) |->
           LET parts == SplitOnce(lines[j])
           IN [sha |-> parts[1],
               message |-> IF Len(parts) > 1 THEN parts[2] ELSE <<>>,
               index |-> j - 1]]

\* the list is used as get_commits returns it
OrderCommitsNotReversed(k, b) == get_commits(k, b)

\* commits = list(reversed(get_commits(n, base)))
OrderCommits(k, b) == Reversed(get_commits(k, b))

\* git show <sha> knows the sha
DiffExists(sha) == sha \in RepoShas

\* git rev-parse <oldest_sha>~1 resolves: the oldest commit has a parent
get_base_commit_ok(cs) == cs[1].sha \in RepoShas /\ cs[1].sha # ShaOf(1)

----------------------------------------------------------------------------
\* Ordered dicts (lists of <<key, value>>, insertion order)

HasKey(d, k) == \E j \in 1..Len(d) : d[j][1] = k

Get(d, k) == d[CHOOSE j \in 1..Len(d) : d[j][1] = k][2]

\* the entry is not stored
PutNothing(d, k, v) == d

\* the dict is replaced by the one entry
PutAlone(d, k, v) == << <<k, v>> >>

\* d[k] = v
Put(d, k, v) ==
    IF HasKey(d, k)
    THEN [j \in 1..Len(d) |-> IF d[j][1] = k THEN <<k, v>> ELSE d[j]]
    ELSE Append(d, <<k, v>>)

----------------------------------------------------------------------------
\* The checkpoint store

AbsentFile == [state |-> "absent", completed_messages |-> <<>>,
               history_summary |-> <<>>]

\* open(CHECKPOINT_FILE, 'w') truncates; until json.dump has written the
\* whole object and the file is closed, the content is no JSON document
TruncatedFile == [state |-> "partial", completed_messages |-> <<>>,
                  history_summary |-> <<>>]

\* the file is written without the entry of the commit just processed
WrittenFileStale(data) ==
    [state |-> "json",
     completed_messages |-> SubSeq(data.completed_messages, 1,
                                   Len(data.completed_messages) - 1),
     history_summary |-> data.history_summary]

WrittenFile(data) == [state |-> "json",
                      completed_messages |-> data.completed_messages,
                      history_summary |-> data.history_summary]

\* the dict {} : no key
EmptyDict == [present |-> FALSE, completed_messages |-> <<>>,
              history_summary |-> <<>>]

load_checkpoint(file) ==
    IF file.state = "json"
    THEN [present |-> TRUE, completed_messages |-> file.completed_messages,
          history_summary |-> file.history_summary]
    ELSE EmptyDict

\* checkpoint.get("completed_messages", {})
GetCompleted(checkpoint) ==
    IF checkpoint.present THEN checkpoint.completed_messages ELSE <<>>

----------------------------------------------------------------------------
\* The message generator

\* what a call of get_ai_response does: it returns None (the request failed),
\* returns the stripped text of the reply, or raises ValueError (no API key)
AiNone == [kind |-> "none", text |-> <<>>]
AiText(t) == [kind |-> "text", text |-> t]
AiRaise == [kind |-> "raise", text |-> <<>>]

GeneratedTexts == {<<"f", "i", "x">>}

AiResponses == {AiNone, AiText(<<>>)} \cup {AiText(t) : t \in GeneratedTexts}

\* the reply is returned as it is, without the fallback
GenerateNoFallback(resp) == resp.text

\* get_ai_response(prompt, max_tokens=300) or "chore: update code"
generate_commit_message(resp) ==
    IF resp.kind = "text" /\ resp.text # <<>> THEN resp.text ELSE FallbackMessage

----------------------------------------------------------------------------
\* The history window

\* f"{short_sha} {msg}"
HistoryEntry(sha, msg) == Take(sha, ShortShaLen) \o SP \o msg

\* for sha, msg in list(completed_messages.items())[-3:]
SeedHistory(cm) ==
    LET tail == LastN(cm, HistorySeed)
    IN [j \in 1..Len(tail) |-> HistoryEntry(tail[j][1], tail[j][2])]

\* the oldest entry is never dropped
UpdateHistoryNoPop(h, sha, msg) == Append(h, HistoryEntry(sha, msg))

\* if len(history_entries) >= 3: pop(0); then append
UpdateHistory(h, sha, msg) ==
    Append(IF Len(h) >= HistoryMax THEN Tail(h) ELSE h, HistoryEntry(sha, msg))

----------------------------------------------------------------------------
\* The parts of the state a specification does not use stay as they are here

IdleEsc ==
    /\ esc_pc = "idle" /\ esc_message = <<>>
    /\ esc_escaped = <<>> /\ esc_decoded = [ok |-> TRUE, text |-> <<>>]

IdleSum ==
    /\ sum_pc = "idle" /\ sum_key = TRUE /\ diff = <<>>
    /\ chunk_size = 0 /\ max_total = 0
    /\ chunks = <<>> /\ chunk_i = 0 /\ summaries = <<>>
    /\ combined_summary = <<>>
    /\ sum_result = [kind |-> "str", text |-> <<>>]
    /\ sum_calls = <<>>

IdleScr ==
    /\ scr_pc = "idle" /\ scr_plan = <<>>
    /\ rebase_script = <<>> /\ rebase_exec_script = <<>>

\* the processes that share the checkpoint path
Procs == {1, 2}

IdleRace ==
    /\ race_file = AbsentFile
    /\ race_size = 0
    /\ race_pc = [p \in Procs |-> "idle"]
    /\ race_commits = [p \in Procs |-> <<>>]
    /\ race_cm = [p \in Procs |-> <<>>]
    /\ race_hist = [p \in Procs |-> <<>>]
    /\ race_count = [p \in Procs |-> 0]
    /\ race_generated = [p \in Procs |-> {}]

----------------------------------------------------------------------------
\* rewrite_commits

Modes == {"dry-run", "apply"}

Shas(cs) == [j \in 1..Len(cs) |-> cs[j].sha]

NoPrev == [outcome |-> "none", commits |-> <<>>, plan |-> <<>>,
           history_summary |-> <<>>]

\* how the run that just ended left things, kept for the run that follows:
\* a run that returned leaves its range and its plan, a run interrupted
\* between two commits (at the head of the loop) leaves its range, what it
\* had processed and the history it was about to pass on
Outcome ==
    IF pc = "done"
    THEN [outcome |-> "done", commits |-> Shas(commits),
          plan |-> commits_with_messages, history_summary |-> <<>>]
    ELSE IF pc = "killed" /\ killed_at = "loop"
    THEN [outcome |-> "interrupted", commits |-> Shas(commits),
          plan |-> commits_with_messages, history_summary |-> history_summary]
    ELSE IF pc = "idle" THEN NoPrev
    ELSE [outcome |-> "failed", commits |-> <<>>, plan |-> <<>>,
          history_summary |-> <<>>]

InitOrch ==
    /\ checkpoint_file = AbsentFile
    /\ api_key = TRUE
    /\ response = <<>>
    /\ pc = "idle"
    /\ n = 0 /\ base = 0 /\ mode = "dry-run"
    /\ run_rebase = FALSE /\ use_exec = FALSE
    /\ commits = <<>>
    /\ completed_messages = <<>>
    /\ history_entries = <<>>
    /\ history_summary = <<>>
    /\ commits_with_messages = <<>>
    /\ new_msg = <<>>
    /\ loaded = <<>>
    /\ gen_calls = <<>>
    /\ diff_calls = <<>>
    /\ failure = ""
    /\ artifacts = {}
    /\ rebase_started = FALSE
    /\ killed_at = ""
    /\ run_no = 0
    /\ prev = NoPrev

\* what can be typed at the prompt
Responses == {<<"y", "e", "s">>, <<"Y", "e", "s">>, <<"n", "o">>}

UpperCase == <<"A", "B", "C", "D", "E", "F", "G", "H", "I", "J", "K", "L", "M",
               "N", "O", "P", "Q", "R", "S", "T", "U", "V", "W", "X", "Y", "Z">>
LowerCase == <<"a", "b", "c", "d", "e", "f", "g", "h", "i", "j", "k", "l", "m",
               "n", "o", "p", "q", "r", "s", "t", "u", "v", "w", "x", "y", "z">>

\* str.lower()
Lower(s) ==
    [j \in 1..Len(s) |->
        IF \E i \in 1..Len(UpperCase) : UpperCase[i] = s[j]
        THEN LowerCase[CHOOSE i \in 1..Len(UpperCase) : UpperCase[i] = s[j]]
        ELSE s[j]]

\* the run goes on whatever was typed
ProceedsAlways(r) == TRUE

\* cli.py line 29, negated: response.lower() == 'yes'
Proceeds(r) == Lower(r) = <<"y", "e", "s">>

\* cli.py lines 24-31: in apply mode the user is asked and has typed yes
Confirm(m) ==
    IF m = "apply"
    THEN \E r \in Responses : Proceeds(r) /\ response' = r
    ELSE response' = <<>>

\* a new process: the arguments of rewrite_commits and its environment
NewProcess(k, b, m, rr, key) ==
    /\ pc \in {"idle", "done", "raised", "killed", "declined"}
    /\ run_no < MaxRuns
    /\ run_no' = run_no + 1
    /\ prev' = Outcome
    /\ n' = k /\ base' = b /\ mode' = m
    /\ run_rebase' = rr
    \* cli.py line 34 passes no use_exec: the default of line 476
    /\ use_exec' = FALSE
    /\ api_key' = key
    /\ commits_with_messages' = <<>>
    /\ new_msg' = <<>>
    /\ gen_calls' = <<>>
    /\ diff_calls' = <<>>
    /\ artifacts' = {}
    /\ rebase_started' = FALSE
    /\ killed_at' = ""
    /\ UNCHANGED <<checkpoint_file, escVars, sumVars, scrVars, raceVars>>

\* lines 478-489: list the commits, load the checkpoint, seed the history
StartRun(k, b, m, rr, key) ==
    /\ b # 0
    /\ NewProcess(k, b, m, rr, key)
    /\ Confirm(m)
    /\ commits' = OrderCommits(k, b)
    /\ LET cm == GetCompleted(load_checkpoint(checkpoint_file))
       IN /\ completed_messages' = cm
          /\ loaded' = cm
          /\ history_entries' = SeedHistory(cm)
          /\ history_summary' = Join(SeedHistory(cm), NL)
    /\ failure' = ""
    /\ pc' = "loop"

\* line 478: git log fails on a revision it does not know (check=True)
GetCommitsFails(k, b, m, rr, key) ==
    /\ b = 0
    /\ NewProcess(k, b, m, rr, key)
    /\ Confirm(m)
    /\ commits' = <<>>
    /\ completed_messages' = <<>>
    /\ loaded' = <<>>
    /\ history_entries' = <<>>
    /\ history_summary' = <<>>
    /\ failure' = "get_commits"
    /\ pc' = "raised"

\* cli.py lines 28-31: the user does not type yes, sys.exit(1) before
\* rewrite_commits is called
Declined(k, b, m, rr, key) ==
    /\ m = "apply"
    /\ NewProcess(k, b, m, rr, key)
    /\ \E r \in Responses : ~Proceeds(r) /\ response' = r
    /\ commits' = <<>>
    /\ completed_messages' = <<>>
    /\ loaded' = <<>>
    /\ history_entries' = <<>>
    /\ history_summary' = <<>>
    /\ failure' = ""
    /\ pc' = "declined"

\* the cache is never hit
IsCachedNever(cm, sha) == FALSE

\* if commit['sha'] in completed_messages
IsCached(cm, sha) == HasKey(cm, sha)

\* the commit the loop is at
AtCommit == pc = "loop" /\ Len(commits_with_messages) < Len(commits)
CurrentSha == commits[Len(commits_with_messages) + 1].sha

\* lines 509-523: history, plan and cache are updated, the save is next
ProcessCommit(sha, msg) ==
    /\ new_msg' = msg
    /\ history_entries' = UpdateHistory(history_entries, sha, msg)
    /\ history_summary' = Join(UpdateHistory(history_entries, sha, msg), NL)
    /\ commits_with_messages' = Append(commits_with_messages, <<sha, msg>>)
    /\ completed_messages' = Put(completed_messages, sha, msg)
    /\ pc' = "save"

\* lines 497-499
ReuseCached ==
    /\ AtCommit
    /\ IsCached(completed_messages, CurrentSha)
    /\ ProcessCommit(CurrentSha, Get(completed_messages, CurrentSha))
    /\ UNCHANGED <<response, escVars, sumVars, scrVars, raceVars>>
    /\ UNCHANGED <<checkpoint_file, api_key, n, base, mode, run_rebase, use_exec,
                   commits, loaded, gen_calls, diff_calls, failure, artifacts,
                   rebase_started, killed_at, run_no, prev>>

\* lines 501-503: the diff is fetched and the generator returns
GenerateMessage(resp) ==
    /\ AtCommit
    /\ ~IsCached(completed_messages, CurrentSha)
    /\ DiffExists(CurrentSha)
    /\ api_key
    /\ diff_calls' = Append(diff_calls, CurrentSha)
    /\ gen_calls' = Append(gen_calls, [sha |-> CurrentSha,
                                        history |-> history_summary,
                                        resp |-> resp])
    /\ ProcessCommit(CurrentSha, generate_commit_message(resp))
    /\ UNCHANGED <<response, escVars, sumVars, scrVars, raceVars>>
    /\ UNCHANGED <<checkpoint_file, api_key, n, base, mode, run_rebase, use_exec,
                   commits, loaded, failure, artifacts, rebase_started,
                   killed_at, run_no, prev>>

\* the except clause of lines 605-607: the exception is printed and re-raised
Raise(what) ==
    /\ failure' = what
    /\ pc' = "raised"

\* line 502: git show fails (check=True), always so for a sha git does not know
GetDiffFails ==
    /\ AtCommit
    /\ ~IsCached(completed_messages, CurrentSha)
    /\ Raise("get_diff")
    /\ UNCHANGED <<response, escVars, sumVars, scrVars, raceVars>>
    /\ UNCHANGED <<checkpoint_file, api_key, n, base, mode, run_rebase, use_exec,
                   commits, completed_messages, history_entries, history_summary,
                   commits_with_messages, new_msg, loaded, gen_calls, diff_calls,
                   artifacts, rebase_started, killed_at, run_no, prev>>

\* line 503 with ai_client.py lines 9-11: get_ai_response raises ValueError
\* outside its try when OPENROUTER_API_KEY is not set
GenerateRaises ==
    /\ AtCommit
    /\ ~IsCached(completed_messages, CurrentSha)
    /\ DiffExists(CurrentSha)
    /\ ~api_key
    /\ diff_calls' = Append(diff_calls, CurrentSha)
    /\ gen_calls' = Append(gen_calls, [sha |-> CurrentSha,
                                        history |-> history_summary,
                                        resp |-> AiRaise])
    /\ Raise("generate")
    /\ UNCHANGED <<response, escVars, sumVars, scrVars, raceVars>>
    /\ UNCHANGED <<checkpoint_file, api_key, n, base, mode, run_rebase, use_exec,
                   commits, completed_messages, history_entries, history_summary,
                   commits_with_messages, new_msg, loaded, artifacts,
                   rebase_started, killed_at, run_no, prev>>

\* save_checkpoint, lines 23-24: the file is opened for writing and truncated
SaveOpen ==
    /\ pc = "save"
    /\ checkpoint_file' = TruncatedFile
    /\ pc' = "writing"
    /\ UNCHANGED <<response, escVars, sumVars, scrVars, raceVars>>
    /\ UNCHANGED <<api_key, n, base, mode, run_rebase, use_exec, commits,
                   completed_messages, history_entries, history_summary,
                   commits_with_messages, new_msg, loaded, gen_calls, diff_calls,
                   failure, artifacts, rebase_started, killed_at, run_no, prev>>

\* save_checkpoint, line 25: json.dump has written checkpoint_data, file closed
SaveClose ==
    /\ pc = "writing"
    /\ checkpoint_file' = WrittenFile([completed_messages |-> completed_messages,
                                       history_summary |-> history_summary])
    /\ pc' = "loop"
    /\ UNCHANGED <<response, escVars, sumVars, scrVars, raceVars>>
    /\ UNCHANGED <<api_key, n, base, mode, run_rebase, use_exec, commits,
                   completed_messages, history_entries, history_summary,
                   commits_with_messages, new_msg, loaded, gen_calls, diff_calls,
                   failure, artifacts, rebase_started, killed_at, run_no, prev>>

\* line 527: the loop is over
LoopExit ==
    /\ pc = "loop"
    /\ Len(commits_with_messages) = Len(commits)
    /\ pc' = IF mode = "apply" THEN "apply" ELSE "done"
    /\ UNCHANGED <<response, escVars, sumVars, scrVars, raceVars>>
    /\ UNCHANGED <<checkpoint_file, api_key, n, base, mode, run_rebase, use_exec,
                   commits, completed_messages, history_entries, history_summary,
                   commits_with_messages, new_msg, loaded, gen_calls, diff_calls,
                   failure, artifacts, rebase_started, killed_at, run_no, prev>>

\* lines 530 and 539: git rev-parse <oldest>~1 fails (check=True)
GetBaseCommitFails ==
    /\ pc = "apply"
    /\ ~get_base_commit_ok(commits)
    /\ Raise("get_base_commit")
    /\ UNCHANGED <<response, escVars, sumVars, scrVars, raceVars>>
    /\ UNCHANGED <<checkpoint_file, api_key, n, base, mode, run_rebase, use_exec,
                   commits, completed_messages, history_entries, history_summary,
                   commits_with_messages, new_msg, loaded, gen_calls, diff_calls,
                   artifacts, rebase_started, killed_at, run_no, prev>>

AllScripts == {"rebase-script.txt", "rebase-exec-script.txt",
               "rewrite-commits.sh", "filter-branch-rewrite.sh", "messages"}

\* lines 528-531 with apply_rebase_automatically (364-473): with use_exec the
\* bash script is written to METADATA_DIR and run, otherwise the reword script,
\* the editor script and the message files go to a temporary directory and
\* git rebase -i is run
ApplyRebase ==
    /\ pc = "apply"
    /\ run_rebase
    /\ get_base_commit_ok(commits)
    /\ artifacts' = IF use_exec THEN {"rewrite-commits.sh"} ELSE {}
    /\ rebase_started' = TRUE
    /\ pc' = "done"
    /\ UNCHANGED <<response, escVars, sumVars, scrVars, raceVars>>
    /\ UNCHANGED <<checkpoint_file, api_key, n, base, mode, run_rebase, use_exec,
                   commits, completed_messages, history_entries, history_summary,
                   commits_with_messages, new_msg, loaded, gen_calls, diff_calls,
                   failure, killed_at, run_no, prev>>

\* lines 532-568: the four scripts and the message files are written
GenerateScripts ==
    /\ pc = "apply"
    /\ ~run_rebase
    /\ get_base_commit_ok(commits)
    /\ artifacts' = AllScripts
    /\ pc' = "done"
    /\ UNCHANGED <<response, escVars, sumVars, scrVars, raceVars>>
    /\ UNCHANGED <<checkpoint_file, api_key, n, base, mode, run_rebase, use_exec,
                   commits, completed_messages, history_entries, history_summary,
                   commits_with_messages, new_msg, loaded, gen_calls, diff_calls,
                   failure, rebase_started, killed_at, run_no, prev>>

\* the process is interrupted or killed; the file stays as it is
Kill ==
    /\ pc \in {"loop", "save", "writing", "apply"}
    /\ killed_at' = pc
    /\ pc' = "killed"
    /\ UNCHANGED <<response, escVars, sumVars, scrVars, raceVars>>
    /\ UNCHANGED <<checkpoint_file, api_key, n, base, mode, run_rebase, use_exec,
                   commits, completed_messages, history_entries, history_summary,
                   commits_with_messages, new_msg, loaded, gen_calls, diff_calls,
                   failure, artifacts, rebase_started, run_no, prev>>

Init == InitOrch /\ IdleEsc /\ IdleSum /\ IdleScr /\ IdleRace

Next ==
    \/ \E k \in 0..RepoLen, b \in BaseRevs, m \in Modes,
          rr \in BOOLEAN, key \in BOOLEAN :
          \/ StartRun(k, b, m, rr, key)
          \/ GetCommitsFails(k, b, m, rr, key)
          \/ Declined(k, b, m, rr, key)
    \/ ReuseCached
    \/ \E resp \in AiResponses : GenerateMessage(resp)
    \/ GetDiffFails
    \/ GenerateRaises
    \/ SaveOpen
    \/ SaveClose
    \/ LoopExit
    \/ GetBaseCommitFails
    \/ ApplyRebase
    \/ GenerateScripts
    \/ Kill

Spec == Init /\ [][Next]_vars

\* cli.py lines 31-40: the exit status of a process that has ended (a killed
\* process ends with the status of its signal, KeyboardInterrupt with 1)
ExitStatus == IF pc = "done" THEN 0 ELSE 1

----------------------------------------------------------------------------
\* Properties of rewrite_commits

Keys(d) == {d[j][1] : j \in 1..Len(d)}
Pairs(d) == {d[j] : j \in 1..Len(d)}
PlanShas == [j \in 1..Len(commits_with_messages) |-> commits_with_messages[j][1]]

\* the loop of lines 493-524 ran to its end
LoopCompleted == pc \in {"apply", "done"}

\* what a load_checkpoint of the file as it is now returns
Persisted == GetCompleted(load_checkpoint(checkpoint_file))

\* the checkpoint the run loaded holds, of the range, exactly its first k commits
PrefixCached(k) ==
    \A j \in 1..Len(commits) : (commits[j].sha \in Keys(loaded)) <=> (j <= k)

\* C1 (Resumability): the diff is never fetched and the generator never
\* invoked for a sha the loaded checkpoint holds; and a run that started with
\* the first k of its n commits cached and whose loop completed has fetched
\* the diff and invoked the generator exactly for the other n - k commits, in
\* order, and its plan starts with the k cached (sha, message) entries.
C1_Resumability ==
    /\ \A j \in 1..Len(gen_calls) : gen_calls[j].sha \notin Keys(loaded)
    /\ \A j \in 1..Len(diff_calls) : diff_calls[j] \notin Keys(loaded)
    /\ \A k \in 0..Len(commits) :
          (LoopCompleted /\ PrefixCached(k)) =>
             /\ Len(gen_calls) = Len(commits) - k
             /\ diff_calls = [j \in 1..(Len(commits) - k) |-> commits[k + j].sha]
             /\ [j \in 1..Len(gen_calls) |-> gen_calls[j].sha] = diff_calls
             /\ Len(commits_with_messages) >= k
             /\ \A j \in 1..k :
                   \E e \in Pairs(loaded) :
                      e[1] = commits[j].sha /\ commits_with_messages[j] = e

\* a run over 3 commits resumed with 1 or 2 of them cached has completed
C1_Witness ==
    /\ LoopCompleted
    /\ Len(commits) = 3
    /\ \E k \in 1..2 : PrefixCached(k) /\ Len(gen_calls) = 3 - k

\* C2 (Idempotence of caching): a run over the range of the previous run,
\* which completed, never invokes the generator, and once its loop has
\* completed its plan is the previous run's plan.
C2_Idempotence ==
    (prev.outcome = "done" /\ pc # "raised" /\ prev.commits = Shas(commits)) =>
        /\ gen_calls = <<>>
        /\ diff_calls = <<>>
        /\ LoopCompleted => commits_with_messages = prev.plan

\* a second run over the same 3 commits has completed, the first one having
\* generated a text for one commit and fallen back for another
C2_Witness ==
    /\ prev.outcome = "done"
    /\ prev.commits = Shas(commits)
    /\ Len(commits) = 3
    /\ LoopCompleted
    /\ \E j \in 1..3 : commits_with_messages[j][2] = FallbackMessage
    /\ \E j \in 1..3 : commits_with_messages[j][2] # FallbackMessage

\* the commits whose processing, save included, is over
CompletedCount ==
    IF \/ pc \in {"save", "writing"}
       \/ pc = "killed" /\ killed_at \in {"save", "writing"}
    THEN Len(commits_with_messages) - 1
    ELSE Len(commits_with_messages)

\* C3 (Crash durability), as claimed: after an interruption at any point,
\* load_checkpoint returns the entry of every commit processed and saved
\* before the one in flight.
C3_CrashDurability ==
    pc = "killed" =>
        \A j \in 1..CompletedCount : commits_with_messages[j] \in Pairs(Persisted)

\* C4 (Resume preserves history context), as claimed: when the previous run
\* was killed between two commits, after k of the n commits (0 < k < n), the
\* restarted run passes to the generator for commit k+1 the history the
\* killed run was about to pass for it.
C4_ResumeHistory ==
    \A j \in 1..Len(gen_calls) :
        ( /\ prev.outcome = "interrupted"
          /\ prev.commits = Shas(commits)
          /\ 0 < Len(prev.plan) /\ Len(prev.plan) < Len(commits)
          /\ gen_calls[j].sha = commits[Len(prev.plan) + 1].sha )
        => gen_calls[j].history = prev.history_summary

\* the generator failed for gen_calls[j]: no reply, or an empty one
NoReply(c) == c.resp.kind = "none" \/ (c.resp.kind = "text" /\ c.resp.text = <<>>)

\* a commit whose generator call got no reply has the fallback message in the
\* plan and in every checkpoint written since: an entry the file holds for it
\* carries the fallback, and a file written after its save holds the entry
FallbackUsed ==
    \A j \in 1..Len(gen_calls) :
        NoReply(gen_calls[j]) =>
            /\ <<gen_calls[j].sha, FallbackMessage>> \in Pairs(commits_with_messages)
            /\ \A e \in Pairs(Persisted) :
                  e[1] = gen_calls[j].sha => e[2] = FallbackMessage
            /\ ( /\ checkpoint_file.state = "json"
                 /\ \E i \in 1..CompletedCount :
                       commits_with_messages[i][1] = gen_calls[j].sha )
               => gen_calls[j].sha \in Keys(Persisted)

C6_DiffFailure ==
    (pc = "raised" /\ failure = "get_diff") =>
        /\ artifacts = {}
        /\ ~rebase_started
        /\ Len(commits_with_messages) < Len(commits)
        /\ \A j \in 1..Len(gen_calls) :
              \E i \in 1..Len(commits_with_messages) :
                 commits_with_messages[i][1] = gen_calls[j].sha
        /\ Pairs(Persisted) = Pairs(loaded) \cup Pairs(commits_with_messages)
        /\ Cardinality(Keys(Persisted)) = Len(Persisted)

\* get_diff failed for the third commit of a run that had loaded a checkpoint
\* and generated a message
C6_Witness ==
    /\ pc = "raised" /\ failure = "get_diff"
    /\ Len(commits_with_messages) = 2
    /\ loaded # <<>>
    /\ gen_calls # <<>>

\* C7 (History window bound): the window never has more than 3 entries, and
\* once 3 commits are processed it is the entries of the last 3, in order.
C7_HistoryWindow ==
    /\ Len(history_entries) <= 3
    /\ LET p == commits_with_messages
           m == Len(commits_with_messages)
       IN m >= 3 =>
            history_entries = << Take(p[m - 2][1], 8) \o SP \o p[m - 2][2],
                                 Take(p[m - 1][1], 8) \o SP \o p[m - 1][2],
                                 Take(p[m][1], 8) \o SP \o p[m][2] >>

\* 3 commits are processed in a run that started with a window seeded from a
\* checkpoint of 2 entries or more
C7_Witness ==
    /\ Len(commits_with_messages) = 3
    /\ Len(loaded) >= 2
    /\ gen_calls # <<>>

\* the commits of the requested range, oldest first
RequestedRange ==
    LET cnt == Min(n, base)
    IN [j \in 1..cnt |-> ShaOf(base - cnt + j)]

\* C10 (Rewrite Plan shape): when the loop has completed, the plan lists the
\* commits of the requested range once each, oldest first, and the checkpoint
\* on disk maps every plan sha to the plan's message; with no prior
\* checkpoint its keys are the plan's shas.
C10_PlanShape ==
    LoopCompleted =>
        /\ PlanShas = RequestedRange
        /\ \A i, j \in 1..Len(PlanShas) : PlanShas[i] = PlanShas[j] => i = j
        /\ checkpoint_file.state = "json"
        /\ Pairs(commits_with_messages) \subseteq Pairs(Persisted)
        /\ Cardinality(Keys(Persisted)) = Len(Persisted)
        /\ loaded = <<>> => Keys(Persisted) = Keys(commits_with_messages)

\* a first run over 3 commits has completed with three generated messages
C10_Witness ==
    /\ pc = "done"
    /\ Len(commits_with_messages) = 3
    /\ loaded = <<>>
    /\ Len(gen_calls) = 3
    /\ PlanShas = <<ShaOf(1), ShaOf(2), ShaOf(3)>>

\* C11 (Apply with execute runs both stages), as claimed: a rebase is started
\* only in apply mode with run_rebase set and after the four scripts and the
\* message files were written to the metadata directory; a run in apply mode
\* that returned has written them, and has started a rebase exactly when
\* run_rebase is set.
C11_ApplyRunsBoth ==
    /\ rebase_started => (mode = "apply" /\ run_rebase /\ AllScripts \subseteq artifacts)
    /\ (pc = "done" /\ mode = "apply") =>
          /\ AllScripts \subseteq artifacts
          /\ rebase_started <=> run_rebase

\* the prompt was answered with a yes
AnsweredYes == response \in {<<"y", "e", "s">>, <<"Y", "e", "s">>}

\* a process that ended at the prompt has done nothing
NothingDone ==
    /\ commits = <<>>
    /\ loaded = <<>>
    /\ gen_calls = <<>>
    /\ diff_calls = <<>>
    /\ commits_with_messages = <<>>
    /\ artifacts = {}
    /\ ~rebase_started

\* C12 (Confirmation gates history mutation): a rebase is started, or a
\* script written, only in a process whose prompt was answered with yes; a
\* process whose user declined exits with a non-zero status, has listed no
\* commit, called no generator, written no script and started no rebase, and
\* the step that declines leaves the checkpoint file as it was.
C12_ConfirmationGates ==
    /\ [](rebase_started \/ artifacts # {} => mode = "apply" /\ AnsweredYes)
    /\ [](pc = "declined" =>
            mode = "apply" /\ ~AnsweredYes /\ ExitStatus # 0 /\ NothingDone)
    /\ [][pc' = "declined" => checkpoint_file' = checkpoint_file]_vars

\* the user declined a second run, in apply mode with run_rebase set, on a
\* repository that has a checkpoint
C12_Witness ==
    /\ pc = "declined"
    /\ response = <<"n", "o">>
    /\ run_rebase
    /\ run_no = 2
    /\ checkpoint_file.state = "json"

\* the commit of the repository a history entry starts with the short sha of
EntryCommit(entry) ==
    CHOOSE k \in 0..RepoLen :
        \/ k > 0 /\ Take(entry, ShortShaLen) = Take(ShaOf(k), ShortShaLen)
        \/ k = 0 /\ \A j \in 1..RepoLen :
                        Take(entry, ShortShaLen) # Take(ShaOf(j), ShortShaLen)

\* C14 (History window is chronological), as claimed: in every state the
\* entries of the window are those of distinct commits, an earlier commit
\* before a later one.
C14_HistoryChronological ==
    \A i, j \in 1..Len(history_entries) :
        i < j => EntryCommit(history_entries[i]) < EntryCommit(history_entries[j])

\* C17 (Cache entries are only added): the run's completed_messages always
\* holds every loaded entry with its message and no sha twice, and so does
\* every checkpoint file the run has written, whatever the range of the run.
C17_EntriesOnlyAdded ==
    /\ Pairs(loaded) \subseteq Pairs(completed_messages)
    /\ Cardinality(Keys(completed_messages)) = Len(completed_messages)
    /\ checkpoint_file.state = "json" =>
          /\ Pairs(loaded) \subseteq Pairs(checkpoint_file.completed_messages)
          /\ Cardinality(Keys(checkpoint_file.completed_messages))
                = Len(checkpoint_file.completed_messages)

\* a run that loaded an entry for a commit outside its range has generated a
\* message, saved and returned
C17_Witness ==
    /\ pc = "done"
    /\ gen_calls # <<>>
    /\ checkpoint_file.state = "json"
    /\ \E e \in Pairs(loaded) : \A j \in 1..Len(commits) : commits[j].sha # e[1]

----------------------------------------------------------------------------
\* Shell escaping of a message and the shell word the exec line carries

\* longest message escaped
MaxMsgLen == 3

MsgAlphabet == {"a", "'", "\\", "\n"}

Messages == UNION {[1..k -> MsgAlphabet] : k \in 0..MaxMsgLen}

\* s.replace(c, r) for a one-character c
RECURSIVE Replace(_, _, _)
Replace(s, c, r) ==
    IF s = <<>> THEN <<>>
    ELSE (IF Head(s) = c THEN r ELSE <<Head(s)>>) \o Replace(Tail(s), c, r)

\* message.replace("\\", "\\\\").replace("'", "'\\''")
escape_commit_message_for_shell(message) ==
    Replace(Replace(message, "\\", <<"\\", "\\">>), "'", <<"'", "\\", "'", "'">>)

\* f"exec git commit --amend --no-edit -m '{escaped_message}'": the word
\* that follows -m
ExecArgument(escaped) == <<"'">> \o escaped \o <<"'">>

Cons(c, r) == [ok |-> r.ok, text |-> <<c>> \o r.text]

\* The value sh gives a word (POSIX quoting): inside single quotes every
\* character stands for itself up to the closing quote; outside, a backslash
\* makes the next character literal (a backslash-newline pair is removed) and
\* a blank ends the word.  ok is FALSE for a word that ends early or a quote
\* left open.
RECURSIVE ShellUnquoted(_), ShellQuoted(_)
ShellUnquoted(s) ==
    IF s = <<>> THEN [ok |-> TRUE, text |-> <<>>]
    ELSE IF Head(s) = "'" THEN ShellQuoted(Tail(s))
    ELSE IF Head(s) = "\\"
    THEN IF Len(s) = 1 THEN [ok |-> TRUE, text |-> <<"\\">>]
         ELSE IF s[2] = "\n" THEN ShellUnquoted(Tail(Tail(s)))
         ELSE Cons(s[2], ShellUnquoted(Tail(Tail(s))))
    ELSE IF Head(s) \in {" ", "\n"} THEN [ok |-> FALSE, text |-> <<>>]
    ELSE Cons(Head(s), ShellUnquoted(Tail(s)))
ShellQuoted(s) ==
    IF s = <<>> THEN [ok |-> FALSE, text |-> <<>>]
    ELSE IF Head(s) = "'" THEN ShellUnquoted(Tail(s))
    ELSE Cons(Head(s), ShellQuoted(Tail(s)))

InitEsc ==
    /\ esc_pc = "start"
    /\ esc_message \in Messages
    /\ esc_escaped = <<>>
    /\ esc_decoded = [ok |-> TRUE, text |-> <<>>]

\* lines 284 and 189
EscapeMessage ==
    /\ esc_pc = "start"
    /\ esc_escaped' = escape_commit_message_for_shell(esc_message)
    /\ esc_pc' = "escaped"
    /\ UNCHANGED <<esc_message, esc_decoded, orchVars, sumVars, scrVars, raceVars>>

\* lines 287 and 190: the exec line is run by the shell of git rebase
RunExec ==
    /\ esc_pc = "escaped"
    /\ esc_decoded' = ShellUnquoted(ExecArgument(esc_escaped))
    /\ esc_pc' = "run"
    /\ UNCHANGED <<esc_message, esc_escaped, orchVars, sumVars, scrVars, raceVars>>

NextEsc == EscapeMessage \/ RunExec

InitEscape == InitOrch /\ InitEsc /\ IdleSum /\ IdleScr /\ IdleRace

SpecEscape == InitEscape /\ [][NextEsc]_vars

\* C8 (Shell-escaping round-trip), as claimed: the shell gives the -m
\* argument of the exec line the value of the original message.
C8_RoundTrip ==
    esc_pc = "run" => esc_decoded = [ok |-> TRUE, text |-> esc_message]

----------------------------------------------------------------------------
\* summarize_diff

\* most lines of a diff
MaxLines == 3
\* length of a long line of a diff
LongLineLen == 40
\* the values of chunk_size
SmallChunk == 2
BigChunk == 40
\* the values of max_total
SmallTotal == 50
BigTotal == 200

\* "... (diff truncated)"
TruncationMark ==
    <<".", ".", ".", " ", "(", "d", "i", "f", "f", " ", "t", "r",
      "u", "n", "c", "a", "t", "e", "d", ")">>

\* "... (additional changes truncated)"
TruncatedSummary ==
    <<".", ".", ".", " ", "(", "a", "d", "d", "i", "t", "i", "o",
      "n", "a", "l", " ", "c", "h", "a", "n", "g", "e", "s", " ",
      "t", "r", "u", "n", "c", "a", "t", "e", "d", ")">>

\* "=== Part "
PartOpen ==
    <<"=", "=", "=", " ", "P", "a", "r", "t", " ">>

\* " ===\n"
PartClose ==
    <<" ", "=", "=", "=", "\n">>

\* "- Changes to: "
ChangesTo ==
    <<"-", " ", "C", "h", "a", "n", "g", "e", "s", " ", "t", "o",
      ":", " ">>

Digits == <<"0", "1", "2", "3", "4", "5", "6", "7", "8", "9">>

\* str(k) for k >= 0
RECURSIVE Decimal(_)
Decimal(k) ==
    IF k < 10 THEN <<Digits[k + 1]>>
    ELSE Decimal(k \div 10) \o <<Digits[(k % 10) + 1]>>

\* sub in s
Contains(s, sub) ==
    \E k \in 0..(Len(s) - Len(sub)) : SubSeq(s, k + 1, k + Len(sub)) = sub

\* s.startswith(p)
StartsWith(s, p) == Len(s) >= Len(p) /\ SubSeq(s, 1, Len(p)) = p

\* s.split('\n')
RECURSIVE SplitLines(_)
SplitLines(s) ==
    IF \E k \in 1..Len(s) : s[k] = "\n"
    THEN LET k == CHOOSE k \in 1..Len(s) :
                      s[k] = "\n" /\ \A j \in 1..(k - 1) : s[j] # "\n"
         IN <<Take(s, k - 1)>> \o SplitLines(Drop(s, k))
    ELSE <<s>>

IsSpace(c) == c \in {" ", "\n", "\t"}

\* line.split()[-1] for a line that has a character other than a blank
LastWord(line) ==
    LET e == CHOOSE e \in 1..Len(line) :
                 ~IsSpace(line[e]) /\ \A j \in (e + 1)..Len(line) : IsSpace(line[j])
        b == CHOOSE b \in 1..e :
                 /\ \A j \in b..e : ~IsSpace(line[j])
                 /\ (b = 1 \/ IsSpace(line[b - 1]))
    IN SubSeq(line, b, e)

\* lines 35-36
Truncate(d, total) ==
    IF Len(d) > total THEN Take(d, total) \o NL \o TruncationMark ELSE d

\* lines 41-57: the lines are gathered into chunks, a chunk being closed when
\* the lengths of its lines add up to chunk_size or more
RECURSIVE ChunkLines(_, _, _, _)
ChunkLines(lines, current_chunk, current_size, size) ==
    IF lines = <<>>
    THEN IF current_chunk # <<>> THEN <<Join(current_chunk, NL)>> ELSE <<>>
    ELSE LET chunk == Append(current_chunk, Head(lines))
             total == current_size + Len(Head(lines))
         IN IF total >= size
            THEN <<Join(chunk, NL)>> \o ChunkLines(Tail(lines), <<>>, 0, size)
            ELSE ChunkLines(Tail(lines), chunk, total, size)

SplitChunks(d, size) == ChunkLines(SplitLines(d), <<>>, 0, size)

\* line 84: [line.split()[-1] for line in chunk.split('\n') if line.startswith('+++')]
RECURSIVE FileNamesOf(_)
FileNamesOf(lines) ==
    IF lines = <<>> THEN <<>>
    ELSE (IF StartsWith(Head(lines), <<"+", "+", "+">>)
          THEN <<LastWord(Head(lines))>> ELSE <<>>) \o FileNamesOf(Tail(lines))

\* line 81: f"=== Part {i+1} ===\n{summary}"
PartSummary(i, summary) == PartOpen \o Decimal(i + 1) \o PartClose \o summary

\* line 85: f"=== Part {i+1} ===\n- Changes to: {', '.join(file_names[:3])}"
LocalSummary(i, chunk) ==
    PartOpen \o Decimal(i + 1) \o PartClose \o ChangesTo \o
    Join(Take(FileNamesOf(SplitLines(chunk)), 3), <<",", " ">>)

\* lines 79-85: the entry a chunk contributes, given what get_ai_response did
ChunkSummary(i, chunk, resp) ==
    IF resp.kind = "text" /\ resp.text # <<>>
    THEN PartSummary(i, resp.text)
    ELSE LocalSummary(i, chunk)

\* the diffs summarized: up to MaxLines lines, each empty, short, long or a
\* file header
DiffLines == { <<>>, <<"x">>, [k \in 1..LongLineLen |-> "x"],
               <<"+", "+", "+", " ", "b", "/", "f">> }

Diffs == {Join(ls, NL) : ls \in UNION {[1..k -> DiffLines] : k \in 1..MaxLines}}

SummaryTexts == {<<"s">>, <<"s", "s", "s">>}

SummaryResponses == {AiNone, AiText(<<>>)} \cup {AiText(t) : t \in SummaryTexts}

InitSum ==
    /\ sum_pc = "start"
    /\ sum_key \in BOOLEAN
    /\ diff \in Diffs
    /\ chunk_size \in {SmallChunk, BigChunk}
    /\ max_total \in {SmallTotal, BigTotal}
    /\ chunks = <<>> /\ chunk_i = 0 /\ summaries = <<>>
    /\ combined_summary = <<>>
    /\ sum_result = [kind |-> "str", text |-> <<>>]
    /\ sum_calls = <<>>

\* lines 31-61: the fast path, the truncation, the chunks, the single chunk
SumSplit ==
    /\ sum_pc = "start"
    /\ IF Len(diff) <= chunk_size
       THEN /\ sum_result' = [kind |-> "str", text |-> diff]
            /\ sum_pc' = "done"
            /\ UNCHANGED <<diff, chunks>>
       ELSE /\ diff' = Truncate(diff, max_total)
            /\ chunks' = SplitChunks(Truncate(diff, max_total), chunk_size)
            /\ IF Len(SplitChunks(Truncate(diff, max_total), chunk_size)) = 1
               THEN /\ sum_result' =
                         [kind |-> "str",
                          text |-> SplitChunks(Truncate(diff, max_total),
                                               chunk_size)[1]]
                    /\ sum_pc' = "done"
               ELSE /\ sum_pc' = "chunks"
                    /\ UNCHANGED sum_result
    /\ UNCHANGED <<sum_key, chunk_size, max_total, chunk_i, summaries,
                   combined_summary, sum_calls, orchVars, escVars, scrVars, raceVars>>

\* the chunk the loop of line 67 is at (chunk_i is the i of enumerate)
AtChunk == sum_pc = "chunks" /\ chunk_i < Len(chunks)
CurrentChunk == chunks[chunk_i + 1]

\* lines 68-70
SumChunkTruncated ==
    /\ AtChunk
    /\ Contains(CurrentChunk, TruncationMark)
    /\ summaries' = Append(summaries, TruncatedSummary)
    /\ chunk_i' = chunk_i + 1
    /\ UNCHANGED <<sum_pc, sum_key, diff, chunk_size, max_total, chunks,
                   combined_summary, sum_result, sum_calls, orchVars, escVars, scrVars, raceVars>>

\* lines 72-85
SumChunkAi(resp) ==
    /\ AtChunk
    /\ ~Contains(CurrentChunk, TruncationMark)
    /\ sum_key
    /\ sum_calls' = Append(sum_calls, [what |-> "chunk", i |-> chunk_i,
                                       resp |-> resp])
    /\ summaries' = Append(summaries, ChunkSummary(chunk_i, CurrentChunk, resp))
    /\ chunk_i' = chunk_i + 1
    /\ UNCHANGED <<sum_pc, sum_key, diff, chunk_size, max_total, chunks,
                   combined_summary, sum_result, orchVars, escVars, scrVars, raceVars>>

\* lines 88-91 and 100: the summaries are joined; short enough, they are the
\* result
SumCombine ==
    /\ sum_pc = "chunks"
    /\ chunk_i = Len(chunks)
    /\ combined_summary' = Join(summaries, <<"\n", "\n">>)
    /\ IF Len(Join(summaries, <<"\n", "\n">>)) > chunk_size
       THEN sum_pc' = "meta" /\ UNCHANGED sum_result
       ELSE /\ sum_pc' = "done"
            /\ sum_result' = [kind |-> "str",
                              text |-> Join(summaries, <<"\n", "\n">>)]
    /\ UNCHANGED <<sum_key, diff, chunk_size, max_total, chunks, chunk_i,
                   summaries, sum_calls, orchVars, escVars, scrVars, raceVars>>

\* lines 92-100: the reply to the meta prompt, None included, is the result
SumMeta(resp) ==
    /\ sum_pc = "meta"
    /\ sum_key
    /\ sum_calls' = Append(sum_calls, [what |-> "meta", i |-> 0, resp |-> resp])
    /\ sum_result' = IF resp.kind = "text"
                     THEN [kind |-> "str", text |-> resp.text]
                     ELSE [kind |-> "none", text |-> <<>>]
    /\ combined_summary' = IF resp.kind = "text" THEN resp.text ELSE <<>>
    /\ sum_pc' = "done"
    /\ UNCHANGED <<sum_key, diff, chunk_size, max_total, chunks, chunk_i,
                   summaries, orchVars, escVars, scrVars, raceVars>>

\* lines 79 and 98 with ai_client.py lines 9-11: ValueError, no API key
SumAiRaises ==
    /\ \/ AtChunk /\ ~Contains(CurrentChunk, TruncationMark)
       \/ sum_pc = "meta"
    /\ ~sum_key
    /\ sum_pc' = "raised"
    /\ UNCHANGED <<sum_key, diff, chunk_size, max_total, chunks, chunk_i,
                   summaries, combined_summary, sum_result, sum_calls,
                   orchVars, escVars, scrVars, raceVars>>

NextSum ==
    \/ SumSplit
    \/ SumChunkTruncated
    \/ \E resp \in SummaryResponses : SumChunkAi(resp)
    \/ SumCombine
    \/ \E resp \in SummaryResponses : SumMeta(resp)
    \/ SumAiRaises

InitSummarize == InitOrch /\ IdleEsc /\ InitSum /\ IdleScr /\ IdleRace

SpecSum == InitSummarize /\ [][NextSum]_vars

\* C9 (Diff summarizer bound), as claimed, with 10 for the small constant:
\* the result of summarize_diff is at most 10 * chunk_size long.
C9_SummaryBound ==
    (sum_pc = "done" /\ sum_result.kind = "str") =>
        Len(sum_result.text) <= 10 * chunk_size

\* the number of places of s where sub occurs
CountSub(s, sub) ==
    Cardinality({k \in 0..(Len(s) - Len(sub)) : SubSeq(s, k + 1, k + Len(sub)) = sub})

\* C16 (Summarizer always yields text), as claimed: summarize_diff never
\* fails and what it returns is a string; a chunk whose generator call got no
\* reply contributes "=== Part i ===" with "- Changes to: " and at most 3 file
\* names; the generator is called at most once per chunk, in chunk order, and
\* after that at most once for the meta-summary.
C16_AlwaysText ==
    /\ sum_pc # "raised"
    /\ sum_pc = "done" => sum_result.kind = "str"
    /\ \A j \in 1..Len(sum_calls) :
          LET c == sum_calls[j]
              head == PartOpen \o Decimal(c.i + 1) \o PartClose \o ChangesTo
          IN /\ c.what = "meta" => j = Len(sum_calls)
             /\ c.what = "chunk" =>
                   /\ c.i < Len(chunks)
                   /\ \A i \in 1..(j - 1) :
                         sum_calls[i].what = "chunk" /\ sum_calls[i].i < c.i
             /\ (c.what = "chunk" /\ NoReply(c)) =>
                   /\ StartsWith(summaries[c.i + 1], head)
                   /\ CountSub(Drop(summaries[c.i + 1], Len(head)), <<",", " ">>) <= 2

----------------------------------------------------------------------------
\* The rebase scripts written from a Rewrite Plan

\* create_rebase_exec_script, lines 268-275
ExecHeader ==
    <<
    \* '# Interactive rebase script with exec amend commands'
    <<"#", " ", "I", "n", "t", "e", "r", "a", "c", "t", "i", "v", "e", " ",
      "r", "e", "b", "a", "s", "e", " ", "s", "c", "r", "i", "p", "t", " ",
      "w", "i", "t", "h", " ", "e", "x", "e", "c", " ", "a", "m", "e", "n",
      "d", " ", "c", "o", "m", "m", "a", "n", "d", "s">>,
    \* '# This script uses exec to amend each commit with new messages'
    <<"#", " ", "T", "h", "i", "s", " ", "s", "c", "r", "i", "p", "t", " ",
      "u", "s", "e", "s", " ", "e", "x", "e", "c", " ", "t", "o", " ", "a",
      "m", "e", "n", "d", " ", "e", "a", "c", "h", " ", "c", "o", "m", "m",
      "i", "t", " ", "w", "i", "t", "h", " ", "n", "e", "w", " ", "m", "e",
      "s", "s", "a", "g", "e", "s">>,
    \* '#'
    <<"#">>,
    \* '# Commands:'
    <<"#", " ", "C", "o", "m", "m", "a", "n", "d", "s", ":">>,
    \* '# pick <commit> = use commit'
    <<"#", " ", "p", "i", "c", "k", " ", "<", "c", "o", "m", "m", "i", "t",
      ">", " ", "=", " ", "u", "s", "e", " ", "c", "o", "m", "m", "i", "t">>,
    \* '# exec <command> = run shell command'
    <<"#", " ", "e", "x", "e", "c", " ", "<", "c", "o", "m", "m", "a", "n",
      "d", ">", " ", "=", " ", "r", "u", "n", " ", "s", "h", "e", "l", "l",
      " ", "c", "o", "m", "m", "a", "n", "d">>,
    \* '#'
    <<"#">>,
    \* ''
    <<>>
    >>

\* create_rebase_script, lines 297-305
RewordHeader ==
    <<
    \* '# Interactive rebase script generated by AI commit rewriter'
    <<"#", " ", "I", "n", "t", "e", "r", "a", "c", "t", "i", "v", "e", " ",
      "r", "e", "b", "a", "s", "e", " ", "s", "c", "r", "i", "p", "t", " ",
      "g", "e", "n", "e", "r", "a", "t", "e", "d", " ", "b", "y", " ", "A",
      "I", " ", "c", "o", "m", "m", "i", "t", " ", "r", "e", "w", "r", "i",
      "t", "e", "r">>,
    \* '#'
    <<"#">>,
    \* '# Commands:'
    <<"#", " ", "C", "o", "m", "m", "a", "n", "d", "s", ":">>,
    \* '# p, pick <commit> = use commit'
    <<"#", " ", "p", ",", " ", "p", "i", "c", "k", " ", "<", "c", "o", "m",
      "m", "i", "t", ">", " ", "=", " ", "u", "s", "e", " ", "c", "o", "m",
      "m", "i", "t">>,
    \* '# r, reword <commit> = use commit, but edit the commit message'
    <<"#", " ", "r", ",", " ", "r", "e", "w", "o", "r", "d", " ", "<", "c",
      "o", "m", "m", "i", "t", ">", " ", "=", " ", "u", "s", "e", " ", "c",
      "o", "m", "m", "i", "t", ",", " ", "b", "u", "t", " ", "e", "d", "i",
      "t", " ", "t", "h", "e", " ", "c", "o", "m", "m", "i", "t", " ", "m",
      "e", "s", "s", "a", "g", "e">>,
    \* '#'
    <<"#">>,
    \* '# These lines can be re-ordered; they are executed from top to bottom.'
    <<"#", " ", "T", "h", "e", "s", "e", " ", "l", "i", "n", "e", "s", " ",
      "c", "a", "n", " ", "b", "e", " ", "r", "e", "-", "o", "r", "d", "e",
      "r", "e", "d", ";", " ", "t", "h", "e", "y", " ", "a", "r", "e", " ",
      "e", "x", "e", "c", "u", "t", "e", "d", " ", "f", "r", "o", "m", " ",
      "t", "o", "p", " ", "t", "o", " ", "b", "o", "t", "t", "o", "m", ".">>,
    \* '#'
    <<"#">>,
    \* ''
    <<>>
    >>

\* "update"
UpdateWord ==
    <<"u", "p", "d", "a", "t", "e">>

\* "pick "
PickWord ==
    <<"p", "i", "c", "k", " ">>

\* "reword "
RewordWord ==
    <<"r", "e", "w", "o", "r", "d", " ">>

\* "exec git commit --amend --no-edit -m "
ExecAmend ==
    <<"e", "x", "e", "c", " ", "g", "i", "t", " ", "c", "o", "m", "m", "i",
      "t", " ", "-", "-", "a", "m", "e", "n", "d", " ", "-", "-", "n", "o",
      "-", "e", "d", "i", "t", " ", "-", "m", " ">>

\* new_message.split('\n')[0] if new_message else "update"
Summary(new_message) ==
    IF new_message # <<>> THEN SplitLines(new_message)[1] ELSE UpdateWord

\* lines 278-288: the pick line, the exec line and an empty line of each entry
RECURSIVE PickExecLines(_)
PickExecLines(plan) ==
    IF plan = <<>> THEN <<>>
    ELSE << PickWord \o plan[1][1] \o SP \o Summary(plan[1][2]),
            ExecAmend \o
              ExecArgument(escape_commit_message_for_shell(plan[1][2])),
            <<>> >> \o PickExecLines(Tail(plan))

create_rebase_exec_script(plan) == Join(ExecHeader \o PickExecLines(plan), NL)

\* lines 308-311: the reword line of each entry
RewordLines(plan) ==
    [j \in 1..Len(plan) |->
        RewordWord \o plan[j][1] \o SP \o Summary(plan[j][2])]

create_rebase_script(plan) == Join(RewordHeader \o RewordLines(plan), NL)

\* the messages of the plans: empty, one line, with a quote, two lines, and
\* two lines of which the second reads as a pick of the newest commit
PlanMessages ==
    { <<>>, <<"a">>, <<"i", "t", "'", "s">>, <<"a", "\n", "b">>,
      <<"a", "\n">> \o PickWord \o ShaOf(RepoLen) }

\* the plans: the shas of a range of the repository, oldest first, each with
\* a message
Plans ==
    UNION { LET cs == OrderCommits(k, b)
            IN { [j \in 1..Len(cs) |-> <<cs[j].sha, ms[j]>>] :
                    ms \in [1..Len(cs) -> PlanMessages] } :
            k \in 1..2, b \in {RepoLen - 1, RepoLen} }

InitScr ==
    /\ scr_pc = "start"
    /\ scr_plan \in Plans
    /\ rebase_script = <<>>
    /\ rebase_exec_script = <<>>

\* line 542
CreateRebaseScript ==
    /\ scr_pc = "start"
    /\ rebase_script' = create_rebase_script(scr_plan)
    /\ scr_pc' = "reword"
    /\ UNCHANGED <<scr_plan, rebase_exec_script, orchVars, escVars, sumVars,
                   raceVars>>

\* line 543
CreateRebaseExecScript ==
    /\ scr_pc = "reword"
    /\ rebase_exec_script' = create_rebase_exec_script(scr_plan)
    /\ scr_pc' = "exec"
    /\ UNCHANGED <<scr_plan, rebase_script, orchVars, escVars, sumVars,
                   raceVars>>

NextScr == CreateRebaseScript \/ CreateRebaseExecScript

InitScripts == InitOrch /\ IdleEsc /\ IdleSum /\ InitScr /\ IdleRace

SpecScripts == InitScripts /\ [][NextScr]_vars

\* the lines of a script that start with a directive word
DirectiveLines(script, word) ==
    SelectSeq(SplitLines(script), LAMBDA l : StartsWith(l, word))

\* the sha a directive line names: its second field
DirectiveSha(line, word) == SplitOnce(Drop(line, Len(word)))[1]

ScriptShas(script, word) ==
    LET ls == DirectiveLines(script, word)
    IN [j \in 1..Len(ls) |-> DirectiveSha(ls[j], word)]

ScrPlanShas == [j \in 1..Len(scr_plan) |-> scr_plan[j][1]]

\* C13 (Consistent commit identity across script variants), as claimed: the
\* reword lines of the reword script name the shas of the plan, once each and
\* in the plan's order; so do the pick lines of the exec script, each of them
\* is immediately followed by an exec git commit --amend line, and there are
\* no other exec lines.
C13_ScriptShas ==
    /\ scr_pc \in {"reword", "exec"} =>
          ScriptShas(rebase_script, RewordWord) = ScrPlanShas
    /\ scr_pc = "exec" =>
          LET ls == SplitLines(rebase_exec_script)
          IN /\ ScriptShas(rebase_exec_script, PickWord) = ScrPlanShas
             /\ \A j \in 1..Len(ls) :
                   StartsWith(ls[j], PickWord) =>
                      j < Len(ls) /\ StartsWith(ls[j + 1], Take(ExecAmend, 23))
             /\ Len(DirectiveLines(rebase_exec_script, Take(ExecAmend, 5)))
                  = Len(scr_plan)

----------------------------------------------------------------------------
\* Two rewrite_commits processes (dry-run) on the same checkpoint path

\* the dict holds only the entry set last
checkpoint_data_last(cm, hs) ==
    [completed_messages |-> LastN(cm, 1), history_summary |-> hs]

\* lines 520-523
checkpoint_data(cm, hs) == [completed_messages |-> cm, history_summary |-> hs]

\* the characters json.dump writes for a string: the quotes, the characters,
\* and a backslash before a quote, a backslash or a newline
JsonStringSize(s) ==
    2 + Len(s) + Cardinality({j \in 1..Len(s) : s[j] \in {"\"", "\\", "\n"}})

\* the lines of the entries of completed_messages, indent=2: four blanks,
\* the key, a colon and a blank, the value, a newline
RECURSIVE EntriesSize(_)
EntriesSize(cm) ==
    IF cm = <<>> THEN 0
    ELSE 7 + JsonStringSize(cm[1][1]) + JsonStringSize(cm[1][2])
         + EntriesSize(Tail(cm))

\* the characters json.dump(data, f, indent=2) writes: 55 for the object with
\* an empty dict and an empty string; a dict with entries takes a newline
\* after its brace, the entries with the commas between them, and two blanks
\* before the closing brace
JsonSize(data) ==
    55 + (JsonStringSize(data.history_summary) - 2)
       + (IF data.completed_messages = <<>> THEN 0
          ELSE EntriesSize(data.completed_messages)
               + Len(data.completed_messages) + 2)

\* the ranges the two processes are run on
RaceCounts == 1..2
RaceBases == {RepoLen - 1, RepoLen}

\* lines 478-489
RaceStart(p, k, b) ==
    /\ race_pc[p] = "idle"
    /\ race_commits' = [race_commits EXCEPT ![p] = OrderCommits(k, b)]
    /\ LET cm == GetCompleted(load_checkpoint(race_file))
       IN /\ race_cm' = [race_cm EXCEPT ![p] = cm]
          /\ race_hist' = [race_hist EXCEPT ![p] = SeedHistory(cm)]
    /\ race_pc' = [race_pc EXCEPT ![p] = "loop"]
    /\ UNCHANGED <<race_file, race_size, race_count, race_generated,
                   orchVars, escVars, sumVars, scrVars>>

RaceAtCommit(p) ==
    race_pc[p] = "loop" /\ race_count[p] < Len(race_commits[p])
RaceSha(p) == race_commits[p][race_count[p] + 1].sha

\* lines 509-523
RaceProcessCommit(p, sha, msg) ==
    /\ race_hist' = [race_hist EXCEPT ![p] = UpdateHistory(race_hist[p], sha, msg)]
    /\ race_cm' = [race_cm EXCEPT ![p] = Put(race_cm[p], sha, msg)]
    /\ race_count' = [race_count EXCEPT ![p] = race_count[p] + 1]
    /\ race_pc' = [race_pc EXCEPT ![p] = "save"]

\* lines 497-499
RaceReuseCached(p) ==
    /\ RaceAtCommit(p)
    /\ IsCached(race_cm[p], RaceSha(p))
    /\ RaceProcessCommit(p, RaceSha(p), Get(race_cm[p], RaceSha(p)))
    /\ UNCHANGED <<race_file, race_size, race_commits, race_generated,
                   orchVars, escVars, sumVars, scrVars>>

\* lines 501-503
RaceGenerateMessage(p, resp) ==
    /\ RaceAtCommit(p)
    /\ ~IsCached(race_cm[p], RaceSha(p))
    /\ RaceProcessCommit(p, RaceSha(p), generate_commit_message(resp))
    /\ race_generated' =
          [race_generated EXCEPT ![p] = race_generated[p] \cup {RaceSha(p)}]
    /\ UNCHANGED <<race_file, race_size, race_commits,
                   orchVars, escVars, sumVars, scrVars>>

\* save_checkpoint, lines 23-24: open(..., 'w') empties the file
RaceSaveOpen(p) ==
    /\ race_pc[p] = "save"
    /\ race_file' = TruncatedFile
    /\ race_size' = 0
    /\ race_pc' = [race_pc EXCEPT ![p] = "writing"]
    /\ UNCHANGED <<race_commits, race_cm, race_hist, race_count,
                   race_generated, orchVars, escVars, sumVars, scrVars>>

\* save_checkpoint, line 25: the document is written from the start of the
\* file and the file closed; where the other process has written a longer
\* document since the file was opened, what is left of it follows and the
\* file is no JSON document
RaceSaveClose(p) ==
    /\ race_pc[p] = "writing"
    /\ LET data == checkpoint_data(race_cm[p], Join(race_hist[p], NL))
       IN /\ race_file' = IF JsonSize(data) >= race_size
                          THEN WrittenFile(data) ELSE TruncatedFile
          /\ race_size' = IF JsonSize(data) >= race_size
                          THEN JsonSize(data) ELSE race_size
    /\ race_pc' = [race_pc EXCEPT ![p] = "loop"]
    /\ UNCHANGED <<race_commits, race_cm, race_hist, race_count,
                   race_generated, orchVars, escVars, sumVars, scrVars>>

\* line 527 in dry-run mode: the loop is over, the run returns
RaceReturn(p) ==
    /\ race_pc[p] = "loop"
    /\ race_count[p] = Len(race_commits[p])
    /\ race_pc' = [race_pc EXCEPT ![p] = "done"]
    /\ UNCHANGED <<race_file, race_size, race_commits, race_cm, race_hist,
                   race_count, race_generated,
                   orchVars, escVars, sumVars, scrVars>>

NextRace ==
    \E p \in Procs :
        \/ \E k \in RaceCounts, b \in RaceBases : RaceStart(p, k, b)
        \/ RaceReuseCached(p)
        \/ \E resp \in {AiNone} \cup {AiText(t) : t \in GeneratedTexts} :
              RaceGenerateMessage(p, resp)
        \/ RaceSaveOpen(p)
        \/ RaceSaveClose(p)
        \/ RaceReturn(p)

InitRace == InitOrch /\ IdleEsc /\ IdleSum /\ IdleScr /\ IdleRace

SpecRace == InitRace /\ [][NextRace]_vars

\* the entries a process generated and whose save_checkpoint has returned
RaceSaved(p) ==
    LET done == IF race_pc[p] \in {"save", "writing"}
                THEN race_count[p] - 1 ELSE race_count[p]
    IN { <<race_commits[p][j].sha, Get(race_cm[p], race_commits[p][j].sha)>> :
           j \in {i \in 1..done : race_commits[p][i].sha \in race_generated[p]} }

RacePersisted == GetCompleted(load_checkpoint(race_file))

\* C15 (Lost update under concurrent runs), the single run: while only one
\* process has been started on the checkpoint path, every entry it generated
\* and saved is read back from the file, except while a save of that process
\* is writing the file.
C15_SingleRunKeeps ==
    \A p \in Procs :
        ( /\ \A q \in Procs \ {p} : race_pc[q] = "idle"
          /\ race_pc[p] # "writing" )
        => RaceSaved(p) \subseteq Pairs(RacePersisted)

\* C15, the two runs: both have returned, the file is a JSON document, and it
\* has no entry for a commit one of them generated a message for and saved
C15_LostUpdate ==
    /\ \A p \in Procs : race_pc[p] = "done"
    /\ race_file.state = "json"
    /\ \E p \in Procs : \E e \in RaceSaved(p) : e[1] \notin Keys(RacePersisted)

====
